---- MODULE Spec2Model ----
(***************************************************************************)
(* Model of the meeting scheduler: the command-line pipeline               *)
(*   validate_generation_start -> validate_integrity -> preprocess_all     *)
(*   -> solve_milp (model construction + m.optimize(), then the status     *)
(*   handling and the reconstruction of the new meetings).                 *)
(*                                                                         *)
(* Dates are day ordinals (integers); a wall-clock time is a record        *)
(* [hour, minute]; the MILP backend is a nondeterministic choice among the *)
(* assignments that satisfy the hard constraints solve_milp adds.          *)
(***************************************************************************)
EXTENDS Integers, Sequences, FiniteSets, TLC

VARIABLES
    data,              \* InputData: persons, teams, avail, fixed_meetings
    generation_start,  \* [day, hour, minute]
    now,               \* [day, hour, minute]
    pre,               \* Preprocessed (candidates_by_team, can_attend, occupied, fixed_by_team_sorted)
    solver,            \* outcome of m.optimize(): [status, has_sol, sol, buf_ok]
    result,            \* the SolveResult solve_milp returned (NoResult before, or if it raised)
    pc,                \* position in main()
    run,               \* which invocation this is, and what the one before returned
    exported           \* TRUE iff export_result_xlsx has written the output file

vars == <<data, generation_start, now, pre, solver, result, pc, run, exported>>

-----------------------------------------------------------------------------
(* Bounds of the explored input space *)

MaxDay == 2          \* days of the planning horizon: 1..MaxDay
MaxBase == 1         \* largest base_required of team T1
MaxAdd == 1          \* largest add_required of team T1
MaxDeviation == 2    \* number of input dimensions that leave the base instance at once

-----------------------------------------------------------------------------
(* Configuration: AppConfig / TimeGrid / PenaltyConfig defaults *)

day_start_hour == 9
slots_per_day == 26
slot_minutes == 30
meeting_slots == 4
latest_start_slot == 22
penalty_value2 == 1
penalty_value3 == 2

-----------------------------------------------------------------------------
(* Small helpers *)

None == "None"

Min(a, b) == IF a < b THEN a ELSE b
Max(a, b) == IF a > b THEN a ELSE b

Range(s) == {s[i] : i \in 1..Len(s)}

RECURSIVE SumSet(_, _)
SumSet(S, f) ==
    IF S = {} THEN 0
    ELSE LET e == CHOOSE e \in S : TRUE IN f[e] + SumSet(S \ {e}, f)

\* dict.get(key, default)
Get(d, key, default) == IF key \in DOMAIN d THEN d[key] ELSE default

\* the subsequence of s whose elements satisfy Test, in order
RECURSIVE SelectSeqBy(_, _)
SelectSeqBy(s, keep) ==
    IF s = <<>> THEN <<>>
    ELSE IF Head(s) \in keep THEN <<Head(s)>> \o SelectSeqBy(Tail(s), keep)
         ELSE SelectSeqBy(Tail(s), keep)

-----------------------------------------------------------------------------
(* TimeGrid *)

slot_to_time(slot) ==
    LET minutes == day_start_hour * 60 + slot * slot_minutes
    IN  [hour |-> minutes \div 60, minute |-> minutes % 60]

meeting_slots_covered(start_slot, n_slots) == start_slot .. (start_slot + n_slots - 1)

dt_index(d, start_slot) == d * 100 + start_slot

-----------------------------------------------------------------------------
(* The universe of the instances *)

PersonSeq == <<"L1", "L2", "A", "B", "C", "D", "E", "F", "G", "H">>
Persons == Range(PersonSeq)
TeamSeq == <<"T1", "T2">>
Days == 1..MaxDay
Slots == 0..(slots_per_day - 1)

\* one day of one person's availability: slot -> code in 1..4
RowFree == [s \in Slots |-> 1]
RowBlocked == [s \in Slots |-> 4]
RowMixed == [s \in Slots |-> IF s % 2 = 0 THEN 2 ELSE 3]
RowMorning == [s \in Slots |-> IF s <= 3 THEN 1 ELSE 4]
RowMorning2 == [s \in Slots |-> IF s <= 4 THEN 1 ELSE 4]
RowLate == [s \in Slots |-> IF s >= latest_start_slot THEN 1 ELSE 4]
RowSplit == [s \in Slots |-> IF s <= 3 \/ (8 <= s /\ s <= 11) THEN 1 ELSE 4]

Row(name) ==
    CASE name = "free" -> RowFree
      [] name = "blocked" -> RowBlocked
      [] name = "mixed" -> RowMixed
      [] name = "morning" -> RowMorning
      [] name = "morning2" -> RowMorning2
      [] name = "late" -> RowLate
      [] name = "split" -> RowSplit

\* person tables: who is flagged is_commissioner / is_senior_commissioner
CommissionersOf(ptab) ==
    CASE ptab = "ok" -> {"A", "B", "C", "D", "E", "F", "G", "H"}
      [] ptab = "l2comm" -> {"L2", "A", "B", "C", "D", "E", "F", "G"}
      [] ptab = "few" -> {"A", "B", "C"}

SeniorFlagOf(ptab) ==
    CASE ptab = "ok" -> {"A", "B", "E", "F"}
      [] ptab = "l2comm" -> {"A", "B", "E", "F", "H"}
      [] ptab = "few" -> {"A", "B"}

PersonsTable(ptab) ==
    [p \in Persons |-> [is_commissioner |-> p \in CommissionersOf(ptab),
                        is_senior_commissioner |-> p \in SeniorFlagOf(ptab)]]

FixedMeeting(tid, d, s, leader, comm) ==
    [team_tid |-> tid, day |-> d, start_slot |-> s, leader_pid |-> leader,
     commissioner_pids |-> comm]

FX1 == FixedMeeting("T1", 1, 0, "L1", <<"A", "B", "C", "D">>)
FX2 == FixedMeeting("T1", MaxDay, 0, "L1", <<"B", "A", "D", "C">>)
FX3 == FixedMeeting("T2", 1, 0, "L2", <<"A", "B", "C", "D">>)
FXdup == FixedMeeting("T1", 1, 0, "L1", <<"A", "B", "C", "C">>)

FixedChoice(name) ==
    CASE name = "none" -> <<>>
      [] name = "fx1" -> <<FX1>>
      [] name = "fx2" -> <<FX2>>
      [] name = "fx2fx1" -> <<FX2, FX1>>
      [] name = "fx3" -> <<FX3>>
      [] name = "dup" -> <<FXdup>>

\* the input dimensions; the base instance is BaseKnobs
Knobs ==
    [ptab : {"ok", "l2comm", "few"},
     nteams : {1, 2},
     base : 0..MaxBase,
     add : 0..MaxAdd,
     deadline : Days,
     members : {"EFGH", "none"},
     fixed : {"none", "fx1", "fx2", "fx2fx1", "fx3", "dup"},
     gen : {<<1, 0, 0>>, <<1, 9, 30>>, <<MaxDay, 9, 30>>},
     now : {<<1, 0, 0>>, <<1, 12, 0>>},
     lrow : {"morning", "morning2", "late", "split"},
     absent : 0..MaxDay,
     drow : {"free", "blocked", "mixed"}]

BaseKnobs ==
    [ptab |-> "ok", nteams |-> 1, base |-> 1, add |-> 0, deadline |-> MaxDay,
     members |-> "EFGH", fixed |-> "none", gen |-> <<1, 0, 0>>, now |-> <<1, 0, 0>>,
     lrow |-> "morning", absent |-> 0, drow |-> "free"]

Deviation(k) ==
    LET names == DOMAIN BaseKnobs
        diff == [n \in names |-> IF k[n] # BaseKnobs[n] THEN 1 ELSE 0]
    IN  SumSet(names, diff)

MembersOf(name) == IF name = "EFGH" THEN {"E", "F", "G", "H"} ELSE {}

TeamsOf(k) ==
    LET t1 == [leader_pid |-> "L1", member_pids |-> MembersOf(k.members),
               deadline |-> k.deadline, base_required |-> k.base, add_required |-> k.add]
        t2 == [leader_pid |-> "L2", member_pids |-> {"E", "F", "G", "H"},
               deadline |-> MaxDay, base_required |-> 1, add_required |-> 0]
    IN  IF k.nteams = 1 THEN [t \in {"T1"} |-> t1]
        ELSE [t \in {"T1", "T2"} |-> IF t = "T1" THEN t1 ELSE t2]

AvailOf(k) ==
    [p \in Persons |->
        IF p = "L1" THEN [d \in Days \ {k.absent} |-> Row(k.lrow)]
        ELSE IF p = "L2" THEN [d \in Days |-> RowMorning]
        ELSE IF p = "D" THEN [d \in Days |-> Row(k.drow)]
        ELSE [d \in Days |-> RowFree]]

InputData(k) ==
    [persons |-> PersonsTable(k.ptab),
     teams |-> TeamsOf(k),
     avail |-> AvailOf(k),
     fixed_meetings |-> FixedChoice(k.fixed)]

DateTime(t) == [day |-> t[1], hour |-> t[2], minute |-> t[3]]

NoPre == [candidates_by_team |-> <<>>, can_attend |-> <<>>, occupied |-> <<>>,
          fixed_by_team_sorted |-> <<>>]
NoResult == [feasible |-> FALSE, status |-> None, meetings |-> <<>>, iis_summary |-> None]
NoSolver == [status |-> None, has_sol |-> FALSE, sol |-> <<>>, buf_ok |-> <<>>]

\* instances with eight eligible commissioners for T1 (two disjoint staffings exist)
WideKnobs ==
    {[BaseKnobs EXCEPT !.members = "none", !.deadline = 2, !.fixed = f] :
        f \in {"none", "fx1"}}
    \cup {[BaseKnobs EXCEPT !.members = "none", !.deadline = 2, !.nteams = 2,
                            !.base = 0, !.add = 1]}

\* S5 (load balance): two teams with base_required = 2 and the same members, so that
\* their pools of eligible commissioners are the same; L1 is free from slot 0 and L2
\* from slot 4 on days 1 and 2
RowNoon == [s \in Slots |-> IF s >= 4 /\ s <= 7 THEN 1 ELSE 4]

S5Members == {{"E", "F", "G", "H"}, {"F", "G", "H"}}

S5Data(members) ==
    [persons |-> PersonsTable("ok"),
     teams |-> [t \in {"T1", "T2"} |->
                  [leader_pid |-> IF t = "T1" THEN "L1" ELSE "L2",
                   member_pids |-> members, deadline |-> 2,
                   base_required |-> 2, add_required |-> 0]],
     avail |-> [p \in Persons |->
                  IF p = "L1" THEN [d \in {1, 2} |-> RowMorning]
                  ELSE IF p = "L2" THEN [d \in {1, 2} |-> RowNoon]
                  ELSE [d \in {1, 2} |-> RowFree]],
     fixed_meetings |-> <<>>]

\* inputs for the validator: one fixed meeting of T1 with any of these leaders and
\* commissioner tuples, alone or next to the valid FX2
VLeaders == {"L1", "L2"}

VComms ==
    {<<"A", "B", "C", "D">>, <<"A", "B", "C", "C">>, <<"A", "B", "C", "E">>,
     <<"A", "B", "C", "L1">>, <<"A", "B", "C", "H">>, <<"A", "C", "D", "G">>,
     <<"L2", "A", "B", "C">>, <<"C", "D", "G", "H">>}

VFixed(leader, comm, second) ==
    LET fm == FixedMeeting("T1", 1, 0, leader, comm)
    IN  CASE second = "none" -> <<fm>>
          [] second = "before" -> <<FX2, fm>>
          [] second = "after" -> <<fm, FX2>>

VData(ptab, members, nteams, leader, comm, second) ==
    [InputData([BaseKnobs EXCEPT !.ptab = ptab, !.members = members, !.nteams = nteams])
        EXCEPT !.fixed_meetings = VFixed(leader, comm, second)]

\* day maps with a code 0, with missing cells, and with every code on covered slots
RowZero == [s \in Slots |-> IF s <= 3 THEN 1 ELSE IF s = 4 THEN 0 ELSE 4]
RowShort == [s \in (0..3) \cup (latest_start_slot..(slots_per_day - 2)) |-> 1]
RowCodes ==
    [s \in Slots |-> IF s \in {0, 3, 8, 9, 11} THEN 1
                     ELSE IF s = 1 THEN 2
                     ELSE IF s = 2 THEN 3
                     ELSE IF s = 10 THEN 0
                     ELSE 4]

PRows == {"keep", "zero", "short", "codes"}

PRow(name, old) ==
    CASE name = "keep" -> old
      [] name = "zero" -> RowZero
      [] name = "short" -> RowShort
      [] name = "codes" -> RowCodes

\* the instance of k with the availability of L1 and of D replaced day by day
PData(k, lr, dr) ==
    LET d == InputData(k)
    IN  [d EXCEPT !.avail = [p \in DOMAIN d.avail |->
                               IF p = "L1"
                               THEN [dy \in DOMAIN d.avail[p] |-> PRow(lr, d.avail[p][dy])]
                               ELSE IF p = "D"
                               THEN [dy \in DOMAIN d.avail[p] |-> PRow(dr, d.avail[p][dy])]
                               ELSE d.avail[p]]]

\* the first invocation of the program
FirstRun == [phase |-> "first", tid |-> None, prev |-> <<>>, prev_total |-> 0]

StartWith(k) ==
    /\ data = InputData(k)
    /\ generation_start = DateTime(k.gen)
    /\ now = DateTime(k.now)
    /\ pre = NoPre
    /\ solver = NoSolver
    /\ result = NoResult
    /\ pc = "validate_generation_start"
    /\ run = FirstRun
    /\ exported = FALSE

Init ==
    \E k \in Knobs :
        /\ \/ k.members = "EFGH" /\ Deviation(k) <= MaxDeviation
           \/ k \in WideKnobs
        /\ StartWith(k)

-----------------------------------------------------------------------------
(* validation/validator.py *)

\* datetime comparison a < b
DateTimeLess(a, b) ==
    \/ a.day < b.day
    \/ a.day = b.day /\ a.hour < b.hour
    \/ a.day = b.day /\ a.hour = b.hour /\ a.minute < b.minute

\* TRUE iff validate_generation_start raises
GenerationStartRejectedNever(t_now, t_gen) == FALSE

\* generation_start < now
GenerationStartRejected(t_now, t_gen) == DateTimeLess(t_gen, t_now)

ValidateGenerationStart ==
    /\ pc = "validate_generation_start"
    /\ pc' = IF GenerationStartRejected(now, generation_start)
             THEN "exit_1" ELSE "build_input_data"
    /\ UNCHANGED <<data, generation_start, now, pre, solver, result, run, exported>>

-----------------------------------------------------------------------------
(* io_layer/xlsx_reader.py: build_input_data, as far as it checks the values it reads *)

\* TRUE iff build_input_data raises ValueError for the required counts in the files
IngestRejected(d) == \E tid \in DOMAIN d.teams : d.teams[tid].add_required < 0

\* data holds what the files contain; the exception is not caught by main()
BuildInputData ==
    /\ pc = "build_input_data"
    /\ pc' = IF IngestRejected(data) THEN "ingest_error" ELSE "validate_integrity"
    /\ UNCHANGED <<data, generation_start, now, pre, solver, result, run, exported>>

-----------------------------------------------------------------------------
(* validation/validator.py: validate_integrity *)

Forbidden(team) == team.member_pids \cup {team.leader_pid}

FixedMeetingRejectedNoSenior(d, fm) ==
    \/ fm.team_tid \notin DOMAIN d.teams
    \/ LET team == d.teams[fm.team_tid]
           comm == Range(fm.commissioner_pids)
       IN  \/ fm.leader_pid # team.leader_pid
           \/ Cardinality(comm) # 4
           \/ \E pid \in comm :
                \/ pid \in Forbidden(team)
                \/ ~d.persons[pid].is_commissioner

\* TRUE iff the checks of one fixed meeting raise
FixedMeetingRejected(d, fm) ==
    \/ fm.team_tid \notin DOMAIN d.teams
    \/ LET team == d.teams[fm.team_tid]
           comm == Range(fm.commissioner_pids)
       IN  \/ fm.leader_pid # team.leader_pid
           \/ Cardinality(comm) # 4
           \/ \E pid \in comm :
                \/ pid \in Forbidden(team)
                \/ ~d.persons[pid].is_commissioner
           \/ Cardinality({i \in 1..4 :
                 d.persons[fm.commissioner_pids[i]].is_senior_commissioner}) < 2

\* TRUE iff validate_integrity raises ValidationError
IntegrityRejected(d) ==
    LET commissioners == {p \in DOMAIN d.persons : d.persons[p].is_commissioner}
        seniors == {p \in commissioners : d.persons[p].is_senior_commissioner}
    IN  \/ Cardinality(commissioners) < 4
        \/ Cardinality(seniors) < 2
        \/ \E t \in DOMAIN d.teams :
              \/ d.teams[t].leader_pid \notin DOMAIN d.persons
              \/ \E mp \in d.teams[t].member_pids : mp \notin DOMAIN d.persons
        \/ \E i \in 1..Len(d.fixed_meetings) : FixedMeetingRejected(d, d.fixed_meetings[i])

ValidateIntegrity ==
    /\ pc = "validate_integrity"
    /\ pc' = IF IntegrityRejected(data) THEN "exit_1" ELSE "preprocess_all"
    /\ UNCHANGED <<data, generation_start, now, pre, solver, result, run, exported>>

-----------------------------------------------------------------------------
(* preprocessing/preprocess.py *)

\* tuple comparison a < b (lexicographic, equal lengths)
RECURSIVE LexLess(_, _)
LexLess(a, b) ==
    IF a = <<>> THEN FALSE
    ELSE \/ Head(a) < Head(b)
         \/ Head(a) = Head(b) /\ LexLess(Tail(a), Tail(b))

\* list.sort(key=...): stable, ascending; s is a sequence of <<key, element>>
RECURSIVE InsertKeyed(_, _)
InsertKeyed(sorted, e) ==
    IF sorted = <<>> THEN <<e>>
    ELSE IF LexLess(e[1], Head(sorted)[1]) THEN <<e>> \o sorted
         ELSE <<Head(sorted)>> \o InsertKeyed(Tail(sorted), e)

RECURSIVE SortKeyed(_)
SortKeyed(s) ==
    IF s = <<>> THEN <<>>
    ELSE InsertKeyed(SortKeyed(SubSeq(s, 1, Len(s) - 1)), s[Len(s)])

Unkeyed(s) == [i \in 1..Len(s) |-> s[i][2]]

build_can_attend_zero_ok(d) ==
    [pid \in DOMAIN d.avail |->
        [dy \in DOMAIN d.avail[pid] |->
            [s \in 0..latest_start_slot |->
                \A ss \in meeting_slots_covered(s, meeting_slots) :
                    Get(d.avail[pid][dy], ss, 4) # 4]]]

build_can_attend(d) ==
    [pid \in DOMAIN d.avail |->
        [dy \in DOMAIN d.avail[pid] |->
            [s \in 0..latest_start_slot |->
                \A ss \in meeting_slots_covered(s, meeting_slots) :
                    Get(d.avail[pid][dy], ss, 4) \notin {0, 4}]]]

Involved(fm) == {fm.leader_pid} \cup Range(fm.commissioner_pids)

build_occupied_from_fixed(d) ==
    LET fms == Range(d.fixed_meetings)
    IN  [pid \in DOMAIN d.persons \cup UNION {Involved(fm) : fm \in fms} |->
            [dy \in {fm.day : fm \in {f \in fms : pid \in Involved(f)}} |->
                [sl \in Slots |->
                    \E fm \in fms :
                        /\ pid \in Involved(fm)
                        /\ fm.day = dy
                        /\ sl \in meeting_slots_covered(fm.start_slot, meeting_slots)]]]

SortFixed(fms) ==
    Unkeyed(SortKeyed([i \in 1..Len(fms) |-> <<<<fms[i].day, fms[i].start_slot>>, fms[i]>>]))

fixed_by_team_sorted(d) ==
    [tid \in {d.fixed_meetings[i].team_tid : i \in 1..Len(d.fixed_meetings)} |->
        SortFixed(SelectSeqBy(d.fixed_meetings,
                              {fm \in Range(d.fixed_meetings) : fm.team_tid = tid}))]

\* the generation_start cutoff of one (day, slot): TRUE iff the slot is skipped
BeforeGenerationStartNever(d, s, gs) == FALSE

BeforeGenerationStart(d, s, gs) ==
    LET st_time == slot_to_time(s)
        st_min == st_time.hour * 60 + st_time.minute
        start_minutes == gs.hour * 60 + gs.minute
    IN  d = gs.day /\ st_min < start_minutes

LeaderOccupiedNever(occupied, leader, d, s) == FALSE

\* TRUE iff one of the covered slots is occupied for the leader
LeaderOccupied(occupied, leader, d, s) ==
    \E sl \in meeting_slots_covered(s, meeting_slots) :
        Get(Get(Get(occupied, leader, <<>>), d, <<>>), sl, FALSE)

\* the candidates of one day, slots s..latest_start_slot, in loop order
RECURSIVE CandidatesOfDay(_, _, _, _, _, _, _)
CandidatesOfDay(tid, leader, d, s, can_attend, occupied, gs) ==
    IF s > latest_start_slot THEN <<>>
    ELSE LET rest == CandidatesOfDay(tid, leader, d, s + 1, can_attend, occupied, gs)
             skip == \/ BeforeGenerationStart(d, s, gs)
                     \/ ~Get(Get(Get(can_attend, leader, <<>>), d, <<>>), s, FALSE)
                     \/ LeaderOccupied(occupied, leader, d, s)
         IN  IF skip THEN rest
             ELSE <<[team_tid |-> tid, day |-> d, start_slot |-> s,
                     dt_idx |-> dt_index(d, s)]>> \o rest

LastCandidateDayUnbounded(team) == MaxDay

LastCandidateDay(team) == team.deadline

\* the while loop over the days d..deadline
RECURSIVE CandidatesFrom(_, _, _, _, _, _, _)
CandidatesFrom(d, tid, team, dd, can_attend, occupied, gs) ==
    IF dd > LastCandidateDay(team) THEN <<>>
    ELSE LET rest == CandidatesFrom(d, tid, team, dd + 1, can_attend, occupied, gs)
         IN  IF dd \notin DOMAIN Get(d.avail, team.leader_pid, <<>>) THEN rest
             ELSE CandidatesOfDay(tid, team.leader_pid, dd, 0, can_attend, occupied, gs)
                  \o rest

generate_candidates(d, can_attend, occupied, gs) ==
    [tid \in DOMAIN d.teams |->
        LET out == CandidatesFrom(d, tid, d.teams[tid], gs.day, can_attend, occupied, gs)
        IN  Unkeyed(SortKeyed([i \in 1..Len(out) |-> <<<<out[i].dt_idx>>, out[i]>>]))]

preprocess_all(d, gs) ==
    LET can == build_can_attend(d)
        occ == build_occupied_from_fixed(d)
    IN  [candidates_by_team |-> generate_candidates(d, can, occ, gs),
         can_attend |-> can,
         occupied |-> occ,
         fixed_by_team_sorted |-> fixed_by_team_sorted(d)]

PreprocessAll ==
    /\ pc = "preprocess_all"
    /\ pre' = preprocess_all(data, generation_start)
    /\ pc' = "optimize"
    /\ UNCHANGED <<data, generation_start, now, solver, result, run, exported>>

-----------------------------------------------------------------------------
(* optimization/milp.py: solve_milp, the model *)

(* The values of the binary variables are kept per team and sequence index k: *)
(* an assignment a maps a team id to a sequence over k = 1..Kmax of records   *)
(*   y : the set of candidate positions ci with y[tid,k,ci] = 1               *)
(*   x : per candidate position ci, the set of persons p with x[tid,k,ci,p]=1 *)
(* Candidate positions are 1-based here (ci + 1 of the source).               *)

persons == PersonSeq

seniors == {pid \in DOMAIN data.persons :
               data.persons[pid].is_senior_commissioner /\ data.persons[pid].is_commissioner}

commissioners == {pid \in DOMAIN data.persons : data.persons[pid].is_commissioner}

pre_cand == pre.candidates_by_team
fixed_sorted == pre.fixed_by_team_sorted

fixed_list(tid) == Get(fixed_sorted, tid, <<>>)
fixed_count_by_team(tid) == Len(fixed_list(tid))

need_new_by_team(tid) ==
    LET t == data.teams[tid]
        need_total == t.base_required + t.add_required
    IN  Max(0, need_total - fixed_count_by_team(tid))

Kmax_by_team_always_buffer(tid) == need_new_by_team(tid) + 1

\* kmax = need_new + (1 if t.base_required > 0 else 0)
Kmax_by_team(tid) ==
    need_new_by_team(tid) + (IF data.teams[tid].base_required > 0 THEN 1 ELSE 0)

fixed_attend_count(pid) ==
    Cardinality({i \in 1..Len(data.fixed_meetings) :
                    data.fixed_meetings[i].leader_pid = pid})
    + Cardinality({<<i, j>> \in (1..Len(data.fixed_meetings)) \X (1..4) :
                    data.fixed_meetings[i].commissioner_pids[j] = pid})

NCand(tid) == Len(pre_cand[tid])
Y(a, tid, k, ci) == IF ci \in a[tid][k].y THEN 1 ELSE 0
X(a, tid, k, ci, pid) == IF pid \in a[tid][k].x[ci] THEN 1 ELSE 0

\* quicksum over a finite index set of a 0/1-valued (or integer) term
RECURSIVE Quicksum(_, _)
Quicksum(S, term) ==
    IF S = {} THEN 0
    ELSE LET e == CHOOSE e \in S : TRUE IN term[e] + Quicksum(S \ {e}, term)

\* number of y variables of team tid, index k that are 1
PlacedK(o) == Cardinality(o.y)
\* Sum_ci x[tid,k,ci,pid]
CommIn(o, pid) == Cardinality({ci \in 1..Len(o.x) : pid \in o.x[ci]})

\* (1) at_most_one_slot[tid,k]
at_most_one_slot(ys) == Cardinality(ys) <= 1

\* (4) exact4[tid,k,ci]: xs the persons with x = 1, yv the value of y
exact3(xs, yv) == Cardinality(xs) = 3 * yv

\* (4) exact4[tid,k,ci]
exact4(xs, yv) == Cardinality(xs) = 4 * yv

senior2_one(xs, yv) == Cardinality(xs \cap seniors) >= yv

\* (5) senior2[tid,k,ci]
senior2(xs, yv) == Cardinality(xs \cap seniors) >= 2 * yv

\* (6) not_comm / conflict [tid,k,ci,pid]
eligible(tid, xs) ==
    \A pid \in Persons :
        /\ pid \notin commissioners => pid \notin xs
        /\ (pid \in commissioners /\ pid \in Forbidden(data.teams[tid])) => pid \notin xs

\* the values of x[tid,k,ci,*] that satisfy (4), (5), (6) for a given y[tid,k,ci]
XChoices(tid, yv) ==
    {xs \in SUBSET Persons : exact4(xs, yv) /\ senior2(xs, yv) /\ eligible(tid, xs)}

\* the values of (y[tid,k,*], x[tid,k,*,*]) that satisfy (1), (4), (5), (6)
KOptions(tid) ==
    LET n == NCand(tid)
        x0 == XChoices(tid, 0)
        x1 == XChoices(tid, 1)
        XFuns[i \in 0..n, ys \in SUBSET (1..n)] ==
            IF i = 0 THEN {<<>>}
            ELSE {Append(f, xs) : f \in XFuns[i - 1, ys],
                                  xs \in IF i \in ys THEN x1 ELSE x0}
    IN  UNION {{[y |-> ys, x |-> xf] : xf \in XFuns[n, ys]} :
                  ys \in {S \in SUBSET (1..n) : at_most_one_slot(S)}}

required_count_base_only(tid, chain) ==
    LET lhs_new == Quicksum(1..Len(chain), [k \in 1..Len(chain) |-> PlacedK(chain[k])])
    IN  fixed_count_by_team(tid) + lhs_new >= data.teams[tid].base_required

\* (2) required_count[tid]
required_count(tid, chain) ==
    LET lhs_new == Quicksum(1..Len(chain), [k \in 1..Len(chain) |-> PlacedK(chain[k])])
        t == data.teams[tid]
    IN  fixed_count_by_team(tid) + lhs_new >= t.base_required + t.add_required

no_multi_same_day_dropped(tid, chain) == TRUE

\* (3) no_multi_same_day[tid,d], for every day d of the candidate list
no_multi_same_day(tid, chain) ==
    LET cand_list == pre_cand[tid]
        days == {cand_list[ci].day : ci \in 1..Len(cand_list)}
    IN  \A d \in days :
            LET idxs == {ci \in 1..Len(cand_list) : cand_list[ci].day = d}
            IN  Quicksum(1..Len(chain),
                         [k \in 1..Len(chain) |-> Cardinality(chain[k].y \cap idxs)]) <= 1

handover_fixed_to_new_dropped(tid, o) == TRUE

\* (8) handover_fixed_to_new[tid,1]
handover_fixed_to_new(tid, o) ==
    LET fl == fixed_list(tid)
    IN  Len(fl) > 0 =>
            LET prev_comm == Range(fl[Len(fl)].commissioner_pids)
            IN  Quicksum(prev_comm, [pid \in prev_comm |-> CommIn(o, pid)]) >= PlacedK(o)

handover_new_to_new_dropped(prev, cur) == TRUE

\* z_le_cur, z_le_prev, handover_new_to_new [tid,k], k >= 2: some binary z
\* satisfies them iff the largest admissible z does
handover_new_to_new(prev, cur) ==
    LET zmax == {pid \in Persons : 1 <= CommIn(cur, pid) /\ 1 <= CommIn(prev, pid)}
    IN  Cardinality(zmax) >= PlacedK(cur)

order_dropped(n, prev, cur) == TRUE

\* (9) order[tid,k,ci_cur,ci_prev], k >= 2
order(n, prev, cur) ==
    \A ci_cur \in 1..n : \A ci_prev \in ci_cur..n :
        (IF ci_cur \in cur.y THEN 1 ELSE 0) + (IF ci_prev \in prev.y THEN 1 ELSE 0) <= 1

buf_ok_constraints_first_only(tid, total_meetings, b) ==
    LET t == data.teams[tid]
        M == fixed_count_by_team(tid) + Kmax_by_team(tid)
    IN  total_meetings >= (t.base_required + 1) - M * (1 - b)

\* buf_ok1[tid], buf_ok2[tid] for the value b of buf_ok[tid]
buf_ok_constraints(tid, total_meetings, b) ==
    LET t == data.teams[tid]
        M == fixed_count_by_team(tid) + Kmax_by_team(tid)
    IN  /\ total_meetings >= (t.base_required + 1) - M * (1 - b)
        /\ total_meetings <= t.base_required + M * b

TotalMeetings(tid, chain) ==
    fixed_count_by_team(tid)
    + Quicksum(1..Len(chain), [k \in 1..Len(chain) |-> PlacedK(chain[k])])

\* the constraints that link index k to index k-1 (or to the fixed tail)
LinkOk(tid, chain, o) ==
    LET k == Len(chain) + 1
    IN  /\ k = 1 => handover_fixed_to_new(tid, o)
        /\ k >= 2 => /\ handover_new_to_new(chain[k - 1], o)
                     /\ order(NCand(tid), chain[k - 1], o)
        /\ no_multi_same_day(tid, Append(chain, o))

\* for one team: the values of its variables that satisfy every constraint
\* that mentions only this team
TeamFeasible(tid) ==
    LET opts == KOptions(tid)
        K == Kmax_by_team(tid)
        Chains[k \in 0..K] ==
            IF k = 0 THEN {<<>>}
            ELSE {Append(c, o) : <<c, o>> \in
                     {co \in Chains[k - 1] \X opts : LinkOk(tid, co[1], co[2])}}
    IN  {c \in Chains[K] :
            /\ required_count(tid, c)
            /\ \E b \in {0, 1} : buf_ok_constraints(tid, TotalMeetings(tid, c), b)}

\* the values of buf_ok[*] that satisfy buf_ok1 and buf_ok2 together with assignment a
BufValues(a) ==
    {bv \in [DOMAIN data.teams -> {0, 1}] :
        \A tid \in DOMAIN data.teams :
            buf_ok_constraints(tid, TotalMeetings(tid, Get(a, tid, <<>>)), bv[tid])}

\* the index triples (tid, k, ci) of the y variables
TKC ==
    UNION {{<<tid, k, ci>> : k \in 1..Kmax_by_team(tid), ci \in 1..NCand(tid)} :
              tid \in DOMAIN pre_cand}

\* day_to_terms of (7): for each (d, h) some candidate covers, the (tid, k, ci)
\* whose candidate covers slot h of day d
day_to_terms ==
    LET Cand(tkc) == pre_cand[tkc[1]][tkc[3]]
        Covered(tkc) == meeting_slots_covered(Cand(tkc).start_slot, meeting_slots)
        keys == UNION {{<<Cand(tkc).day, h>> : h \in Covered(tkc)} : tkc \in TKC}
    IN  [dh \in keys |-> {tkc \in TKC : Cand(tkc).day = dh[1] /\ dh[2] \in Covered(tkc)}]

\* (7) no_double_booking[pid,d,h]; the sum of the 0/1 terms is a count
no_double_booking(a, dtt) ==
    \A pid \in Persons : \A dh \in DOMAIN dtt :
        Cardinality({tkc \in dtt[dh] : pid \in a[tkc[1]][tkc[2]].x[tkc[3]]})
        + Cardinality({tkc \in dtt[dh] : /\ pid = data.teams[tkc[1]].leader_pid
                                         /\ tkc[3] \in a[tkc[1]][tkc[2]].y}) <= 1

\* all functions that map each tid of tids to an element of perTeam[tid]
RECURSIVE Products(_, _)
Products(tids, perTeam) ==
    IF tids = {} THEN {<<>>}
    ELSE LET tid == CHOOSE t \in tids : TRUE
         IN  {[t \in tids |-> IF t = tid THEN fc[2] ELSE fc[1][t]] :
                 fc \in Products(tids \ {tid}, perTeam) \X perTeam[tid]}

\* the assignments that satisfy all hard constraints
\* (w, Wmax, placed_day and v are determined by y and x and never exclude one)
FeasibleSet ==
    LET tids == DOMAIN pre_cand
        perTeam == [tid \in tids |-> TeamFeasible(tid)]
        dtt == day_to_terms
    IN  {a \in Products(tids, perTeam) : no_double_booking(a, dtt)}

-----------------------------------------------------------------------------
(* optimization/milp.py: solve_milp, the objective (in tenths) *)

w_availability == 10
w_gap_rule == 5
w_finish_buffer == 8
w_normal_plus_one == 4
w_load_balance == 15
mip_gap_percent == 1

_availability_penalty(value) ==
    IF value = 2 THEN penalty_value2
    ELSE IF value = 3 THEN penalty_value3
    ELSE 0

\* the penalty of person pid over the slots a meeting at candidate c covers
Pen(pid, c) ==
    LET slots == Get(Get(data.avail, pid, <<>>), c.day, <<>>)
        cov == meeting_slots_covered(c.start_slot, meeting_slots)
    IN  Quicksum(cov, [sl \in cov |-> _availability_penalty(Get(slots, sl, 4))])

\* pen_leader / pen_p of every candidate
PenTable ==
    [tid \in DOMAIN pre_cand |->
        [ci \in 1..NCand(tid) |-> [pid \in Persons |-> Pen(pid, pre_cand[tid][ci])]]]

\* the (tid, k, ci) with y = 1, and the (tid, k, ci, pid) with x = 1:
\* the only terms of the sums below that are not 0
PlacedY(a) == {tkc \in TKC : tkc[3] \in a[tkc[1]][tkc[2]].y}

PlacedX(a) ==
    UNION {{<<tkc[1], tkc[2], tkc[3], pid>> : pid \in a[tkc[1]][tkc[2]].x[tkc[3]]} :
              tkc \in PlacedY(a)}

availability_penalty_terms(a, pen) ==
    LET py == PlacedY(a)
        px == {t \in PlacedX(a) : t[4] \in commissioners}
    IN  Quicksum(py, [tkc \in py |-> pen[tkc[1]][tkc[3]][data.teams[tkc[1]].leader_pid]])
        + Quicksum(px, [t \in px |-> pen[t[1]][t[3]][t[4]]])

deadline_day_penalty_terms_none(a) == 0

\* the y of the candidates on the team's deadline
deadline_day_penalty_terms(a) ==
    Cardinality({tkc \in PlacedY(a) :
                    pre_cand[tkc[1]][tkc[3]].day = data.teams[tkc[1]].deadline})

\* placed_day[tid,d]: forced to 1 iff some y of that day is 1
placed_day(a, tid, d) ==
    IF \E k \in 1..Len(a[tid]) : \E ci \in a[tid][k].y : pre_cand[tid][ci].day = d
    THEN 1 ELSE 0

\* the least v_consecutive[tid,d] over the adjacent candidate days
gap_penalty_terms(a) ==
    LET tds == UNION {{<<tid, pre_cand[tid][ci].day>> : ci \in 1..NCand(tid)} :
                         tid \in DOMAIN pre_cand}
        adj == {td \in tds : <<td[1], td[2] + 1>> \in tds}
    IN  Cardinality({td \in adj : placed_day(a, td[1], td[2])
                                  + placed_day(a, td[1], td[2] + 1) - 1 >= 1})

\* buf_ok[tid]: the value the buffer constraints force
buf_ok(a, tid) ==
    IF TotalMeetings(tid, a[tid]) >= data.teams[tid].base_required + 1 THEN 1 ELSE 0

normal_plus_one_reward_terms(a) ==
    Cardinality({tid \in DOMAIN data.teams :
                    data.teams[tid].base_required > 0 /\ buf_ok(a, tid) = 1})

\* w[pid]
w(a, pid) ==
    fixed_attend_count(pid)
    + Cardinality({tkc \in PlacedY(a) : pid = data.teams[tkc[1]].leader_pid})
    + Cardinality({t \in PlacedX(a) : t[4] = pid})

\* the least Wmax with Wmax >= w[pid] for every pid
Wmax(a) ==
    LET ws == {w(a, pid) : pid \in Persons}
    IN  CHOOSE m \in ws : \A n \in ws : m >= n

Objective(a, pen) ==
    w_availability * availability_penalty_terms(a, pen)
    + w_finish_buffer * deadline_day_penalty_terms(a)
    + w_gap_rule * gap_penalty_terms(a)
    - w_normal_plus_one * normal_plus_one_reward_terms(a)
    + w_load_balance * Wmax(a)

Abs(n) == IF n < 0 THEN -n ELSE n

\* the assignments the backend may report as OPTIMAL: within MIPGap of the optimum
OptimalSet(F) ==
    LET pen == PenTable
        obj == [a \in F |-> Objective(a, pen)]
        best == CHOOSE v \in {obj[a] : a \in F} : \A a \in F : v <= obj[a]
    IN  {a \in F : 100 * (obj[a] - best) <= mip_gap_percent * Abs(obj[a])}

-----------------------------------------------------------------------------
(* optimization/milp.py: solve_milp, m.optimize() *)

\* some y variable exists (the reconstruction reads its value)
HasYVar == \E tid \in DOMAIN pre_cand : Kmax_by_team(tid) >= 1 /\ NCand(tid) >= 1

Optimize ==
    /\ pc = "optimize"
    /\ LET F == FeasibleSet
       IN  \/ /\ F = {}
              /\ \E st \in {"INFEASIBLE", "INF_OR_UNBD"} :
                    solver' = [status |-> st, has_sol |-> FALSE, sol |-> <<>>, buf_ok |-> <<>>]
           \/ \E a \in OptimalSet(F) : \E bv \in BufValues(a) :
                    solver' = [status |-> "OPTIMAL", has_sol |-> TRUE, sol |-> a,
                               buf_ok |-> bv]
           \/ \E a \in F : \E bv \in BufValues(a) : \E st \in {"TIME_LIMIT", "SUBOPTIMAL"} :
                    solver' = [status |-> st, has_sol |-> TRUE, sol |-> a, buf_ok |-> bv]
           \/ /\ HasYVar
              /\ solver' = [status |-> "TIME_LIMIT", has_sol |-> FALSE, sol |-> <<>>, buf_ok |-> <<>>]
           \/ \E st \in {"INTERRUPTED", "NUMERIC"} :
                    solver' = [status |-> st, has_sol |-> FALSE, sol |-> <<>>, buf_ok |-> <<>>]
    /\ pc' = "extract"
    /\ UNCHANGED <<data, generation_start, now, pre, result, run, exported>>

-----------------------------------------------------------------------------
(* optimization/milp.py: solve_milp, status handling and reconstruction *)

\* the integer codes of the solver's status constants, as f"STATUS_{status}" prints them
GRB(name) ==
    CASE name = "OPTIMAL" -> 2
      [] name = "INFEASIBLE" -> 3
      [] name = "INF_OR_UNBD" -> 4
      [] name = "TIME_LIMIT" -> 9
      [] name = "INTERRUPTED" -> 11
      [] name = "NUMERIC" -> 12
      [] name = "SUBOPTIMAL" -> 13

FeasibleStatusesWithInterrupted == {"OPTIMAL", "TIME_LIMIT", "SUBOPTIMAL", "INTERRUPTED"}

\* the statuses after which the solution is reconstructed
FeasibleStatuses == {"OPTIMAL", "TIME_LIMIT", "SUBOPTIMAL"}

\* the persons of the list persons (in its order) whose x value exceeds 0.5
RECURSIVE CommsOf(_, _)
CommsOf(ps, xs) ==
    IF ps = <<>> THEN <<>>
    ELSE IF Head(ps) \in xs THEN <<Head(ps)>> \o CommsOf(Tail(ps), xs)
         ELSE CommsOf(Tail(ps), xs)

FirstFour(s) == SubSeq(s, 1, Min(4, Len(s)))

\* the first ci with y[tid,k,ci] > 0.5, or 0 for chosen_ci = None
ChosenCi(ys) == IF ys = {} THEN 0 ELSE CHOOSE ci \in ys : \A c2 \in ys : ci <= c2

handover_pid_of(a, tid, k, comms) ==
    LET fl == fixed_list(tid)
        base_no == Len(fl)
        meeting_no == base_no + k
        prev_comm_set ==
            IF meeting_no - 1 <= base_no /\ base_no > 0
            THEN Range(fl[meeting_no - 1].commissioner_pids)
            ELSE LET prev_ci == ChosenCi(a[tid][k - 1].y)
                 IN  IF prev_ci # 0 THEN a[tid][k - 1].x[prev_ci] ELSE {}
        common == SelectSeqBy(comms, prev_comm_set)
    IN  IF meeting_no >= 2 /\ common # <<>> THEN common[1] ELSE None

MeetingNoFromOne(tid, k) == k

\* meeting_no = base_no + k
MeetingNo(tid, k) == Len(fixed_list(tid)) + k

\* a reconstruction that gives up on a team at the first skipped meeting
RECURSIVE MeetingsOfTeamStopAtGap(_, _, _)
MeetingsOfTeamStopAtGap(a, tid, k) ==
    IF k > Kmax_by_team(tid) THEN <<>>
    ELSE LET chosen_ci == ChosenCi(a[tid][k].y)
         IN  IF chosen_ci = 0 THEN MeetingsOfTeamStopAtGap(a, tid, k + 1)
             ELSE LET c == pre_cand[tid][chosen_ci]
                      comms == FirstFour(CommsOf(persons, a[tid][k].x[chosen_ci]))
                  IN  IF Len(comms) # 4 THEN <<>>
                      ELSE <<[team_tid |-> tid,
                              day |-> c.day,
                              start_slot |-> c.start_slot,
                              leader_pid |-> data.teams[tid].leader_pid,
                              commissioner_pids |-> comms,
                              meeting_no |-> MeetingNo(tid, k),
                              handover_person_pid |-> handover_pid_of(a, tid, k, comms)]>>
                           \o MeetingsOfTeamStopAtGap(a, tid, k + 1)

\* the meetings reconstructed for team tid, indices k..Kmax
RECURSIVE MeetingsOfTeam(_, _, _)
MeetingsOfTeam(a, tid, k) ==
    IF k > Kmax_by_team(tid) THEN <<>>
    ELSE LET rest == MeetingsOfTeam(a, tid, k + 1)
             chosen_ci == ChosenCi(a[tid][k].y)
         IN  IF chosen_ci = 0 THEN rest
             ELSE LET c == pre_cand[tid][chosen_ci]
                      comms == FirstFour(CommsOf(persons, a[tid][k].x[chosen_ci]))
                  IN  IF Len(comms) # 4 THEN rest
                      ELSE <<[team_tid |-> tid,
                              day |-> c.day,
                              start_slot |-> c.start_slot,
                              leader_pid |-> data.teams[tid].leader_pid,
                              commissioner_pids |-> comms,
                              meeting_no |-> MeetingNo(tid, k),
                              handover_person_pid |-> handover_pid_of(a, tid, k, comms)]>>
                           \o rest

\* the loop over pre_cand.items(), in the order of the teams
RECURSIVE Reconstruct(_, _)
Reconstruct(a, tids) ==
    IF tids = <<>> THEN <<>>
    ELSE IF Head(tids) \in DOMAIN pre_cand
         THEN MeetingsOfTeam(a, Head(tids), 1) \o Reconstruct(a, Tail(tids))
         ELSE Reconstruct(a, Tail(tids))

ResultStatusAlwaysOptimal(status) == "OPTIMAL"

\* the status string of a feasible return
ResultStatus(status) == IF status = "OPTIMAL" THEN "OPTIMAL" ELSE "FEASIBLE"

SolveResult(feasible, status, meetings, iis) ==
    [feasible |-> feasible, status |-> status, meetings |-> meetings, iis_summary |-> iis]

Extract ==
    /\ pc = "extract"
    /\ \/ /\ solver.status \in {"INFEASIBLE", "INF_OR_UNBD"}
          /\ \E iis \in {None, "IIS"} :
                result' = SolveResult(FALSE, "INFEASIBLE", <<>>, iis)
          /\ pc' = "report"
       \/ /\ solver.status \notin {"INFEASIBLE", "INF_OR_UNBD"}
          /\ solver.status \notin FeasibleStatuses
          /\ result' = SolveResult(FALSE, "STATUS_" \o ToString(GRB(solver.status)), <<>>, None)
          /\ pc' = "report"
       \/ /\ solver.status \in FeasibleStatuses
          /\ solver.has_sol
          /\ result' = SolveResult(TRUE, ResultStatus(solver.status),
                                   Reconstruct(solver.sol, TeamSeq), None)
          /\ pc' = "report"
       \/ \* no incumbent: reading y[...].X raises
          /\ solver.status \in FeasibleStatuses
          /\ ~solver.has_sol
          /\ result' = result
          /\ pc' = "raised"
    /\ UNCHANGED <<data, generation_start, now, pre, solver, run, exported>>

-----------------------------------------------------------------------------
(* main_cli.py: the end of main() *)

Report ==
    /\ pc = "report"
    /\ pc' = IF ~result.feasible THEN "exit_2" ELSE "exit_0"
    /\ exported' = IF ~result.feasible THEN exported ELSE TRUE
    /\ UNCHANGED <<data, generation_start, now, pre, solver, result, run>>

-----------------------------------------------------------------------------
(* Properties *)

\* solve_milp has returned a SolveResult
Returned == pc \in {"report", "exit_0", "exit_2"}
FeasibleReturn == Returned /\ result.feasible

Meetings == Range(result.meetings)
FixedOf(tid) == {fm \in Range(data.fixed_meetings) : fm.team_tid = tid}
NewOf(tid) == {m \in Meetings : m.team_tid = tid}
Participants(m) == {m.leader_pid} \cup Range(m.commissioner_pids)
Before(m1, m2) ==
    \/ m1.day < m2.day
    \/ m1.day = m2.day /\ m1.start_slot < m2.start_slot
Overlap(m1, m2) ==
    /\ m1.day = m2.day
    /\ m1.start_slot < m2.start_slot + meeting_slots
    /\ m2.start_slot < m1.start_slot + meeting_slots

\* C1: in every feasible return, for every team the number of its fixed meetings
\* plus the number of its returned new meetings is at least base_required + add_required.
C1_RequiredCount ==
    FeasibleReturn =>
        \A tid \in DOMAIN data.teams :
            Cardinality({i \in 1..Len(data.fixed_meetings) :
                            data.fixed_meetings[i].team_tid = tid})
            + Cardinality({j \in 1..Len(result.meetings) :
                            result.meetings[j].team_tid = tid})
            >= data.teams[tid].base_required + data.teams[tid].add_required

\* a feasible return in which a team with a fixed meeting and add_required > 0
\* meets its required count exactly, with at least one new meeting
C1_Witness ==
    /\ FeasibleReturn
    /\ \E tid \in DOMAIN data.teams :
          /\ FixedOf(tid) # {}
          /\ NewOf(tid) # {}
          /\ data.teams[tid].add_required > 0
          /\ Cardinality(FixedOf(tid)) + Cardinality(NewOf(tid))
                = data.teams[tid].base_required + data.teams[tid].add_required

\* C2: every returned new meeting has exactly 4 pairwise distinct commissioners, at
\* least 2 of them senior, none in the team's conflict set (members plus leader), all
\* flagged is_commissioner, and its leader is the team's leader.
C2_Staffing ==
    Returned =>
        \A m \in Meetings :
            LET team == data.teams[m.team_tid]
                comm == Range(m.commissioner_pids)
            IN  /\ Len(m.commissioner_pids) = 4
                /\ Cardinality(comm) = 4
                /\ Cardinality({p \in comm : data.persons[p].is_senior_commissioner}) >= 2
                /\ comm \cap (team.member_pids \cup {team.leader_pid}) = {}
                /\ \A p \in comm : data.persons[p].is_commissioner
                /\ m.leader_pid = team.leader_pid

\* a returned meeting staffed although some commissioner-flagged persons are in the
\* team's conflict set and some senior-flagged person is no commissioner
C2_Witness ==
    /\ Returned
    /\ \E m \in Meetings :
          /\ \E p \in data.teams[m.team_tid].member_pids : data.persons[p].is_commissioner
          /\ \E p \in Persons : /\ data.persons[p].is_senior_commissioner
                                /\ ~data.persons[p].is_commissioner

\* C3: in every feasible return no person is a participant (leader or commissioner) of
\* two meetings, fixed or new, on the same date with overlapping slot ranges.
C3_NoDoubleBooking ==
    FeasibleReturn =>
        \A m1 \in Meetings : \A m2 \in Meetings \cup Range(data.fixed_meetings) :
            (Overlap(m1, m2)
             /\ <<m1.team_tid, m1.day, m1.start_slot>> # <<m2.team_tid, m2.day, m2.start_slot>>)
                => Participants(m1) \cap Participants(m2) = {}

\* C4: in every feasible return, per team, the fixed meetings in chronological order
\* followed by the new meetings in sequence order are strictly increasing by
\* (date, start_slot); in particular every new meeting is later than every fixed one.
C4_ChainIncreasing ==
    FeasibleReturn =>
        \A tid \in DOMAIN data.teams :
            /\ \A f1 \in FixedOf(tid) : \A f2 \in FixedOf(tid) :
                  f1 # f2 => (Before(f1, f2) \/ Before(f2, f1))
            /\ \A f \in FixedOf(tid) : \A m \in NewOf(tid) : Before(f, m)
            /\ \A m1 \in NewOf(tid) : \A m2 \in NewOf(tid) :
                  m1.meeting_no < m2.meeting_no => Before(m1, m2)

\* C5: in every feasible return every new meeting with a predecessor in its team's chain
\* shares a commissioner with it: the meeting with the previous sequence number, or,
\* for the first new meeting of a team with fixed meetings, the chronologically last
\* fixed meeting.
C5_Handover ==
    FeasibleReturn =>
        \A m \in Meetings :
            LET fixed == FixedOf(m.team_tid)
                k == m.meeting_no - Cardinality(fixed)
                comm == Range(m.commissioner_pids)
            IN  /\ k >= 2 =>
                      \E prev \in NewOf(m.team_tid) :
                          /\ prev.meeting_no = m.meeting_no - 1
                          /\ comm \cap Range(prev.commissioner_pids) # {}
                /\ (k = 1 /\ fixed # {}) =>
                      \E last \in fixed :
                          /\ \A f \in fixed : f = last \/ Before(f, last)
                          /\ comm \cap Range(last.commissioner_pids) # {}

\* a feasible return with two consecutive new meetings of a team that are staffed
\* differently, of which the team could also staff two with no common commissioner
C5_Witness ==
    /\ FeasibleReturn
    /\ \E m \in Meetings : \E prev \in Meetings :
          /\ prev.team_tid = m.team_tid
          /\ prev.meeting_no = m.meeting_no - 1
          /\ Range(m.commissioner_pids) # Range(prev.commissioner_pids)
          /\ Cardinality({p \in Persons :
                            /\ data.persons[p].is_commissioner
                            /\ p \notin Forbidden(data.teams[m.team_tid])}) >= 8

\* C6: in every feasible return no participant of a returned meeting has availability
\* code 4 on a slot the meeting covers.
C6_NoCode4 ==
    FeasibleReturn =>
        \A m \in Meetings : \A p \in Participants(m) :
            \A sl \in m.start_slot..(m.start_slot + meeting_slots - 1) :
                /\ m.day \in DOMAIN data.avail[p]
                /\ sl \in DOMAIN data.avail[p][m.day]
                /\ data.avail[p][m.day][sl] # 4

\* C7: every returned meeting starts at a slot in 0..latest_start_slot and, when it is
\* on the date of generation_start, not before generation_start's time of day.
C7_StartSlot ==
    Returned =>
        \A m \in Meetings :
            /\ 0 <= m.start_slot
            /\ m.start_slot <= latest_start_slot
            /\ m.day = generation_start.day =>
                  (day_start_hour * 60 + m.start_slot * slot_minutes
                      >= generation_start.hour * 60 + generation_start.minute)

\* a returned meeting on the date of generation_start when generation_start is
\* after the first slot of the day
C7_Witness ==
    /\ Returned
    /\ \E m \in Meetings :
          /\ m.day = generation_start.day
          /\ generation_start.hour * 60 + generation_start.minute > day_start_hour * 60

\* C8: every returned meeting is dated on or before its team's deadline and on or
\* after the date of generation_start.
C8_Deadline ==
    Returned =>
        \A m \in Meetings :
            /\ m.day <= data.teams[m.team_tid].deadline
            /\ m.day >= generation_start.day

\* a returned meeting on the deadline of a team whose leader is also free
\* on a later day
C8_Witness ==
    /\ Returned
    /\ \E m \in Meetings :
          /\ m.day = data.teams[m.team_tid].deadline
          /\ \E d \in DOMAIN data.avail[m.leader_pid] :
                /\ d > m.day
                /\ \A sl \in 0..(meeting_slots - 1) : data.avail[m.leader_pid][d][sl] # 4

\* C9: when the solver stops on its time limit with no incumbent, solve_milp returns
\* feasible=false with status "TIME_LIMIT" and no meetings.
C9_TimeLimitNoIncumbent ==
    (pc \notin {"optimize", "extract"} /\ solver.status = "TIME_LIMIT" /\ ~solver.has_sol)
        => /\ Returned
           /\ ~result.feasible
           /\ result.status = "TIME_LIMIT"
           /\ result.meetings = <<>>

\* C10: after every terminal status other than optimal, time limit and suboptimal,
\* solve_milp returns feasible=false; every result with feasible=false has no meetings.
C10_Infeasible ==
    /\ (pc \notin {"optimize", "extract"}
        /\ solver.status \in {"INFEASIBLE", "INF_OR_UNBD", "INTERRUPTED", "NUMERIC"})
          => (Returned /\ ~result.feasible)
    /\ (Returned /\ ~result.feasible) => result.meetings = <<>>

\* a return after a terminal status that is neither infeasible nor a feasible one
C10_Witness ==
    /\ Returned
    /\ solver.status = "NUMERIC"
    /\ ~result.feasible
    /\ result.status = "STATUS_12"

\* C11: when the solver stops on its time limit with an incumbent the result is
\* feasible=true with status "FEASIBLE"; a result has status "OPTIMAL" if and only if the
\* solver ended with its optimal status.
C11_TimeLimitIncumbent ==
    /\ (pc \notin {"optimize", "extract"} /\ solver.status = "TIME_LIMIT" /\ solver.has_sol)
          => (Returned /\ result.feasible /\ result.status = "FEASIBLE")
    /\ Returned => (result.status = "OPTIMAL" <=> solver.status = "OPTIMAL")

\* a return after a time-limit stop whose incumbent places a meeting
C11_Witness ==
    /\ Returned
    /\ solver.status = "TIME_LIMIT"
    /\ solver.has_sol
    /\ result.status = "FEASIBLE"
    /\ result.meetings # <<>>

-----------------------------------------------------------------------------

Next ==
    \/ ValidateGenerationStart
    \/ BuildInputData
    \/ ValidateIntegrity
    \/ PreprocessAll
    \/ Optimize
    \/ Extract
    \/ Report

Spec == Init /\ [][Next]_vars

-----------------------------------------------------------------------------
(* Scenario S5 *)

InitS5 ==
    \E members \in S5Members :
        /\ data = S5Data(members)
        /\ generation_start = DateTime(<<1, 0, 0>>)
        /\ now = DateTime(<<1, 0, 0>>)
        /\ pre = NoPre
        /\ solver = NoSolver
        /\ result = NoResult
        /\ pc = "validate_generation_start"
        /\ run = FirstRun
        /\ exported = FALSE

SpecS5 == InitS5 /\ [][Next]_vars

-----------------------------------------------------------------------------
(* A caller that runs the core (preprocess_all, solve_milp) without the validators *)

InitDirect ==
    \E k \in Knobs :
        /\ k.members = "EFGH"
        /\ Deviation(k) <= MaxDeviation
        /\ StartWith(k)

CallCoreDirectly ==
    /\ pc = "validate_generation_start"
    /\ run.phase = "first"
    /\ run' = [run EXCEPT !.phase = "direct"]
    /\ pc' = "preprocess_all"
    /\ UNCHANGED <<data, generation_start, now, pre, solver, result, exported>>

NextDirect ==
    \/ Next
    \/ CallCoreDirectly

SpecDirect == InitDirect /\ [][NextDirect]_vars

-----------------------------------------------------------------------------
(* main() with a solution whose x values are read back with a numerical gap *)

InitRecon ==
    \E k \in Knobs :
        /\ k.members = "EFGH"
        /\ Deviation(k) <= MaxDeviation
        /\ StartWith(k)

\* one x[tid,k,ci,pid] of a placed meeting reads back as not greater than 0.5;
\* run keeps the meetings the solution yields without the gap
ReadBackGap ==
    /\ pc = "extract"
    /\ solver.status \in FeasibleStatuses
    /\ solver.has_sol
    /\ run.phase = "first"
    /\ \E tid \in DOMAIN solver.sol : \E k \in 1..Len(solver.sol[tid]) :
          \E ci \in solver.sol[tid][k].y : \E pid \in solver.sol[tid][k].x[ci] :
              /\ solver' = [solver EXCEPT !.sol[tid][k].x[ci] = @ \ {pid}]
              /\ run' = [phase |-> "gap", tid |-> tid,
                         prev |-> Reconstruct(solver.sol, TeamSeq),
                         prev_total |-> MeetingNo(tid, k)]
    /\ UNCHANGED <<data, generation_start, now, pre, result, pc, exported>>

NextRecon ==
    \/ Next
    \/ ReadBackGap

SpecRecon == InitRecon /\ [][NextRecon]_vars

-----------------------------------------------------------------------------
(* main() on the inputs for the validator *)

InitValidate ==
    \E ptab \in {"ok", "l2comm", "few"}, members \in {"EFGH", "none"}, nteams \in {1, 2},
       leader \in VLeaders, comm \in VComms, second \in {"none", "before", "after"} :
        /\ data = VData(ptab, members, nteams, leader, comm, second)
        /\ generation_start = DateTime(<<1, 0, 0>>)
        /\ now = DateTime(<<1, 0, 0>>)
        /\ pre = NoPre
        /\ solver = NoSolver
        /\ result = NoResult
        /\ pc = "validate_generation_start"
        /\ run = FirstRun
        /\ exported = FALSE

SpecValidate == InitValidate /\ [][Next]_vars

-----------------------------------------------------------------------------
(* main() on files whose required counts may be negative *)

RawBase == (0 - 1)..MaxBase
RawAdd == (0 - 1)..MaxAdd

InitIngest ==
    \E k \in Knobs, b \in RawBase, a \in RawAdd :
        /\ k.members = "EFGH"
        /\ k.base = BaseKnobs.base
        /\ k.add = BaseKnobs.add
        /\ Deviation(k) <= MaxDeviation
        /\ data = [InputData(k) EXCEPT !.teams["T1"].base_required = b,
                                       !.teams["T1"].add_required = a]
        /\ generation_start = DateTime(k.gen)
        /\ now = DateTime(k.now)
        /\ pre = NoPre
        /\ solver = NoSolver
        /\ result = NoResult
        /\ pc = "validate_generation_start"
        /\ run = FirstRun
        /\ exported = FALSE

SpecIngest == InitIngest /\ [][Next]_vars

-----------------------------------------------------------------------------
(* main() on the inputs for the preprocessing *)

InitPre ==
    \E k \in Knobs, lr \in PRows, dr \in PRows :
        /\ k.members = "EFGH"
        /\ Deviation(k) < MaxDeviation
        /\ data = PData(k, lr, dr)
        /\ generation_start = DateTime(k.gen)
        /\ now = DateTime(k.now)
        /\ pre = NoPre
        /\ solver = NoSolver
        /\ result = NoResult
        /\ pc = "validate_generation_start"
        /\ run = FirstRun
        /\ exported = FALSE

SpecPre == InitPre /\ [][Next]_vars

-----------------------------------------------------------------------------
(* Two invocations of main() on inputs that differ in one team's add_required *)

InitMono ==
    \E k \in Knobs :
        /\ k.members = "EFGH"
        /\ Deviation(k) <= MaxDeviation
        /\ StartWith(k)

\* main() is run again on the same files with add_required of team tid raised by 1
Rerun ==
    /\ pc \in {"exit_0", "exit_2"}
    /\ run.phase = "first"
    /\ \E tid \in DOMAIN data.teams :
          /\ data' = [data EXCEPT !.teams[tid].add_required = @ + 1]
          /\ run' = [phase |-> "second", tid |-> tid,
                     prev |-> [t \in DOMAIN data.teams |->
                                  Cardinality({j \in 1..Len(result.meetings) :
                                                  result.meetings[j].team_tid = t})],
                     prev_total |-> Len(result.meetings)]
    /\ pre' = NoPre
    /\ solver' = NoSolver
    /\ result' = NoResult
    /\ pc' = "validate_generation_start"
    /\ exported' = FALSE
    /\ UNCHANGED <<generation_start, now>>

NextMono ==
    \/ Next
    \/ Rerun

SpecMono == InitMono /\ [][NextMono]_vars

\* C12 (as stated): raising one team's add_required by 1 never decreases the total
\* number of meetings in the returned result.
C12_TotalMonotone ==
    (run.phase = "second" /\ Returned) => Len(result.meetings) >= run.prev_total

\* C12 (amended): when the team whose add_required is raised by 1 had
\* base_required + add_required >= its number of fixed meetings before the raise, and
\* the return after the raise is feasible, that team's number of returned new meetings
\* after the raise is at least its number before.
C12_TeamMonotone ==
    (run.phase = "second" /\ FeasibleReturn) =>
        LET t == data.teams[run.tid]
        IN  t.base_required + (t.add_required - 1) >= Cardinality(FixedOf(run.tid))
                => Cardinality(NewOf(run.tid)) >= run.prev[run.tid]

\* a feasible return after the raise for a team that had a new meeting returned before
C12_Witness ==
    /\ run.phase = "second"
    /\ FeasibleReturn
    /\ run.prev[run.tid] >= 1
    /\ data.teams[run.tid].base_required + (data.teams[run.tid].add_required - 1)
          >= Cardinality(FixedOf(run.tid))
    /\ Cardinality(NewOf(run.tid)) >= 2

\* the commissioners that are eligible for team tid
EligiblePool(tid) ==
    {p \in Persons : data.persons[p].is_commissioner /\ p \notin Forbidden(data.teams[tid])}

\* the number of returned meetings person p attends as a commissioner
Attendance(p) == Cardinality({m \in Meetings : p \in Range(m.commissioner_pids)})

\* C13: for two teams with the same pool of eligible commissioners and base_required = 2
\* each, in a returned optimal solution the largest and the smallest attendance among
\* the eligible commissioners differ by at most 1.
C13_LoadBalance ==
    (/\ Returned
     /\ result.status = "OPTIMAL"
     /\ DOMAIN data.teams = {"T1", "T2"}
     /\ EligiblePool("T1") = EligiblePool("T2")
     /\ \A tid \in DOMAIN data.teams : data.teams[tid].base_required = 2)
        => \A p \in EligiblePool("T1") : \A q \in EligiblePool("T1") :
              Attendance(p) - Attendance(q) <= 1

\* S4: the instance has the single team tid with base_required = 1, add_required = 0
\* and no fixed meeting; its candidates are one on the day before the deadline and one
\* on the deadline, at the same start slot, and every person's availability is the same
\* on the two days
S4Instance(tid) ==
    /\ DOMAIN data.teams = {tid}
    /\ data.fixed_meetings = <<>>
    /\ data.teams[tid].base_required = 1
    /\ data.teams[tid].add_required = 0
    /\ LET cands == pre.candidates_by_team[tid]
           dl == data.teams[tid].deadline
       IN  /\ Len(cands) = 2
           /\ cands[1].day = dl - 1
           /\ cands[2].day = dl
           /\ cands[1].start_slot = cands[2].start_slot
           /\ \A p \in Persons :
                 /\ {dl - 1, dl} \subseteq DOMAIN data.avail[p]
                 /\ data.avail[p][dl - 1] = data.avail[p][dl]

\* C14: in an S4 instance every returned optimal solution has the team's meeting on the
\* day before the deadline and no meeting on the deadline.
C14_DeadlineDay ==
    \A tid \in DOMAIN data.teams :
        (Returned /\ result.status = "OPTIMAL" /\ S4Instance(tid)) =>
            /\ \E m \in Meetings : m.day = data.teams[tid].deadline - 1
            /\ \A m \in Meetings : m.day # data.teams[tid].deadline

\* an optimal return for an S4 instance in which attending is penalised for a
\* commissioner on both days
C14_Witness ==
    /\ Returned
    /\ result.status = "OPTIMAL"
    /\ S4Instance("T1")
    /\ Len(result.meetings) = 1
    /\ \E p \in Range(result.meetings[1].commissioner_pids) :
          data.avail[p][result.meetings[1].day][result.meetings[1].start_slot] \in {2, 3}

\* fewer than 4 persons are flagged is_commissioner
FewCommissioners == Cardinality({p \in Persons : data.persons[p].is_commissioner}) < 4

\* some team needs a new meeting
SomeTeamNeedsNew ==
    \E tid \in DOMAIN data.teams :
        data.teams[tid].base_required + data.teams[tid].add_required
            > Cardinality(FixedOf(tid))

FixedMeetingValid(fm) ==
    LET team == data.teams[fm.team_tid]
        comm == Range(fm.commissioner_pids)
    IN  /\ fm.leader_pid = team.leader_pid
        /\ \A i \in 1..4 : \A j \in 1..4 :
              i # j => fm.commissioner_pids[i] # fm.commissioner_pids[j]
        /\ comm \cap (team.member_pids \cup {team.leader_pid}) = {}
        /\ \A p \in comm : data.persons[p].is_commissioner
        /\ Cardinality({p \in comm : data.persons[p].is_senior_commissioner}) >= 2

\* at least 4 commissioners, at least 2 senior commissioners, every id refers to a
\* person or team of the input
GloballyValid ==
    /\ Cardinality({p \in Persons : data.persons[p].is_commissioner}) >= 4
    /\ Cardinality({p \in Persons : /\ data.persons[p].is_commissioner
                                    /\ data.persons[p].is_senior_commissioner}) >= 2
    /\ \A t \in DOMAIN data.teams :
          {data.teams[t].leader_pid} \cup data.teams[t].member_pids \subseteq Persons
    /\ \A fm \in Range(data.fixed_meetings) :
          /\ fm.team_tid \in DOMAIN data.teams
          /\ {fm.leader_pid} \cup Range(fm.commissioner_pids) \subseteq Persons

\* C16: validate_integrity raises ValidationError whenever some fixed meeting breaks one
\* of the rules (leader is the team's leader; 4 pairwise distinct commissioners; none in
\* the conflict set; all flagged is_commissioner; at least 2 flagged senior), and accepts
\* whenever all fixed meetings keep them and the global counts and ids are valid.
C16_FixedMeetingRules ==
    [][(pc = "validate_integrity" /\ pc' # pc) =>
          /\ (\E fm \in Range(data.fixed_meetings) :
                 fm.team_tid \in DOMAIN data.teams /\ ~FixedMeetingValid(fm))
                => pc' = "exit_1"
          /\ (GloballyValid /\ \A fm \in Range(data.fixed_meetings) : FixedMeetingValid(fm))
                => pc' = "preprocess_all"]_vars

\* validate_integrity has rejected an input whose only flaw is a fixed meeting, listed
\* after a valid one, with a single senior among its four distinct commissioners
C16_Witness ==
    /\ pc = "exit_1"
    /\ GloballyValid
    /\ Len(data.fixed_meetings) = 2
    /\ FixedMeetingValid(data.fixed_meetings[1])
    /\ LET fm == data.fixed_meetings[2]
           comm == Range(fm.commissioner_pids)
       IN  /\ fm.leader_pid = data.teams[fm.team_tid].leader_pid
           /\ Cardinality(comm) = 4
           /\ comm \cap Forbidden(data.teams[fm.team_tid]) = {}
           /\ \A p \in comm : data.persons[p].is_commissioner
           /\ Cardinality({p \in comm : data.persons[p].is_senior_commissioner}) = 1

\* C17: an input in which some team has a negative base_required or a negative
\* add_required is rejected before the core (preprocess_all, solve_milp) runs.
C17_NegativeRequired ==
    (\E tid \in DOMAIN data.teams :
        data.teams[tid].base_required < 0 \/ data.teams[tid].add_required < 0)
        => pc \in {"validate_generation_start", "build_input_data", "validate_integrity",
                   "exit_1", "ingest_error"}

\* preprocess_all has run
Preprocessed == pc \in {"optimize", "extract", "report", "raised", "exit_0", "exit_2"}

\* every slot a meeting starting at s covers has a code 1, 2 or 3 for p on d
Attendable(p, d, s) ==
    /\ p \in DOMAIN data.avail
    /\ d \in DOMAIN data.avail[p]
    /\ \A ss \in s..(s + meeting_slots - 1) :
          /\ ss \in DOMAIN data.avail[p][d]
          /\ data.avail[p][d][ss] \in {1, 2, 3}

\* p takes part in a fixed meeting on d that covers slot sl
OccupiedByFixed(p, d, sl) ==
    \E fm \in Range(data.fixed_meetings) :
        /\ p \in Participants(fm)
        /\ fm.day = d
        /\ fm.start_slot <= sl
        /\ sl < fm.start_slot + meeting_slots

\* the conditions under which (d, s) is a candidate of team tid
CandidateConditions(tid, d, s) ==
    LET team == data.teams[tid]
        leader == team.leader_pid
    IN  /\ generation_start.day <= d
        /\ d <= team.deadline
        /\ d = generation_start.day =>
              day_start_hour * 60 + s * slot_minutes
                  >= generation_start.hour * 60 + generation_start.minute
        /\ Attendable(leader, d, s)
        /\ \A sl \in s..(s + meeting_slots - 1) : ~OccupiedByFixed(leader, d, sl)

\* C18: (d, s) with 0 <= s <= latest_start_slot is in a team's candidate list iff, for the
\* team's leader, d is between generation_start's date and the deadline, s is not before
\* generation_start's time on that date, the leader can attend, no covered slot is
\* occupied and d is in the leader's availability map; the list is strictly increasing
\* in dt_idx and in (date, start_slot).
C18_Candidates ==
    Preprocessed =>
        \A tid \in DOMAIN data.teams :
            LET cands == pre.candidates_by_team[tid]
            IN  /\ \A d \in 0..(MaxDay + 1) : \A s \in 0..latest_start_slot :
                      (\E i \in 1..Len(cands) : cands[i].day = d /\ cands[i].start_slot = s)
                          <=> CandidateConditions(tid, d, s)
                /\ \A i \in 1..Len(cands) :
                      /\ cands[i].day \in 0..(MaxDay + 1)
                      /\ cands[i].start_slot \in 0..latest_start_slot
                      /\ cands[i].team_tid = tid
                /\ \A i \in 1..Len(cands) : \A j \in 1..Len(cands) :
                      i < j => /\ cands[i].dt_idx < cands[j].dt_idx
                               /\ Before(cands[i], cands[j])

\* a team with candidates and a start slot its leader can attend, within
\* the date range, that is left out because a fixed meeting occupies the leader
C18_Witness ==
    /\ Preprocessed
    /\ \E tid \in DOMAIN data.teams :
          LET cands == pre.candidates_by_team[tid]
              leader == data.teams[tid].leader_pid
          IN  /\ cands # <<>>
              /\ \E d \in Days : \E s \in 0..latest_start_slot :
                    /\ generation_start.day <= d
                    /\ d <= data.teams[tid].deadline
                    /\ Attendable(leader, d, s)
                    /\ OccupiedByFixed(leader, d, s)

\* C19: for every person p, date d of p's availability map and start slot s in
\* 0..latest_start_slot, can_attend[p][d][s] is true iff every covered slot has a code in
\* {1,2,3} for p on d (a missing cell, 0 or 4 makes it false).
C19_CanAttend ==
    Preprocessed =>
        /\ DOMAIN pre.can_attend = DOMAIN data.avail
        /\ \A p \in DOMAIN data.avail :
              /\ DOMAIN pre.can_attend[p] = DOMAIN data.avail[p]
              /\ \A d \in DOMAIN data.avail[p] :
                    /\ DOMAIN pre.can_attend[p][d] = 0..latest_start_slot
                    /\ \A s \in 0..latest_start_slot :
                          pre.can_attend[p][d][s] <=> Attendable(p, d, s)

\* can_attend computed for day maps with a start slot whose covered codes are 1, 2 and 3,
\* one that covers a code 0 and one that covers a missing cell
C19_Witness ==
    /\ Preprocessed
    /\ \E p \in DOMAIN data.avail : \E d \in DOMAIN data.avail[p] :
          /\ pre.can_attend[p][d][0]
          /\ {data.avail[p][d][ss] : ss \in 0..(meeting_slots - 1)} = {1, 2, 3}
    /\ \E p \in DOMAIN data.avail : \E d \in DOMAIN data.avail[p] :
          \E s \in 0..latest_start_slot :
              /\ ~pre.can_attend[p][d][s]
              /\ \E ss \in s..(s + meeting_slots - 1) :
                    ss \in DOMAIN data.avail[p][d] /\ data.avail[p][d][ss] = 0
    /\ \E p \in DOMAIN data.avail : \E d \in DOMAIN data.avail[p] :
          \E s \in 0..latest_start_slot :
              /\ ~pre.can_attend[p][d][s]
              /\ \A ss \in s..(s + meeting_slots - 1) :
                    ss \in DOMAIN data.avail[p][d] => data.avail[p][d][ss] = 1

\* the number of fixed meetings of team tid in the input
FCount(tid) ==
    Cardinality({i \in 1..Len(data.fixed_meetings) : data.fixed_meetings[i].team_tid = tid})

\* the number of returned new meetings of team tid
NewCount(tid) ==
    Cardinality({j \in 1..Len(result.meetings) : result.meetings[j].team_tid = tid})

\* N_t = max(0, base_t + add_t - F_t)
N_t(tid) ==
    LET need == data.teams[tid].base_required + data.teams[tid].add_required - FCount(tid)
    IN  IF need > 0 THEN need ELSE 0

\* K_t = N_t + (1 if base_t > 0 else 0)
K_t(tid) == N_t(tid) + (IF data.teams[tid].base_required > 0 THEN 1 ELSE 0)

\* C20: for every feasible return and every team t with F_t fixed meetings, the number
\* of returned new meetings of t is at least N_t = max(0, base_t + add_t - F_t) and at
\* most K_t = N_t + (1 if base_t > 0 else 0).
C20_NewCountBounds ==
    FeasibleReturn =>
        \A tid \in DOMAIN data.teams :
            /\ N_t(tid) <= NewCount(tid)
            /\ NewCount(tid) <= K_t(tid)

\* a feasible return where a team with a base requirement has N_t > 0 and exactly
\* K_t = N_t + 1 new meetings
C20_Witness ==
    /\ FeasibleReturn
    /\ \E tid \in DOMAIN data.teams :
          /\ data.teams[tid].base_required > 0
          /\ N_t(tid) > 0
          /\ NewCount(tid) = K_t(tid)

\* the solver holds a solution of the model
HasSolution == pc \in {"extract", "report", "exit_0", "exit_2"} /\ solver.has_sol

\* the (k, ci) of team tid with y[tid,k,ci] = 1 in the solver's solution
PlacedOf(tid) ==
    {kc \in (1..Len(solver.sol[tid])) \X (1..Len(pre.candidates_by_team[tid])) :
        kc[2] \in solver.sol[tid][kc[1]].y}

\* C21: for every team and every date, at most one new meeting of that team is placed
\* on that date, summed over all sequence indices k (in the solver's solution and in
\* the returned meetings).
C21_NoSameDayRepeat ==
    /\ HasSolution =>
          \A tid \in DOMAIN solver.sol : \A d \in Days :
              Cardinality({kc \in PlacedOf(tid) :
                              pre.candidates_by_team[tid][kc[2]].day = d}) <= 1
    /\ FeasibleReturn =>
          \A tid \in DOMAIN data.teams : \A d \in Days :
              Cardinality({j \in 1..Len(result.meetings) :
                              /\ result.meetings[j].team_tid = tid
                              /\ result.meetings[j].day = d}) <= 1

\* a solution that places two new meetings of a team whose candidate list has two
\* non-overlapping start slots on one date
C21_Witness ==
    /\ HasSolution
    /\ \E tid \in DOMAIN solver.sol :
          LET cands == pre.candidates_by_team[tid]
          IN  /\ Cardinality(PlacedOf(tid)) >= 2
              /\ \E i \in 1..Len(cands) : \E j \in 1..Len(cands) :
                    /\ cands[i].day = cands[j].day
                    /\ cands[i].start_slot + meeting_slots <= cands[j].start_slot

\* C22: in every assignment satisfying the hard constraints, whenever a team's new
\* meetings with sequence indices k-1 and k (k >= 2) are both placed, the k-th is at a
\* candidate with a strictly larger dt_idx than the (k-1)-th.
C22_SequenceOrder ==
    HasSolution =>
        \A tid \in DOMAIN solver.sol :
            LET cands == pre.candidates_by_team[tid]
                chain == solver.sol[tid]
            IN  \A k \in 2..Len(chain) :
                    \A ci_prev \in chain[k - 1].y : \A ci_cur \in chain[k].y :
                        cands[ci_prev].dt_idx < cands[ci_cur].dt_idx

\* a solution with the meetings k-1 and k of a team both placed, on different dates
C22_Witness ==
    /\ HasSolution
    /\ \E tid \in DOMAIN solver.sol :
          LET cands == pre.candidates_by_team[tid]
              chain == solver.sol[tid]
          IN  \E k \in 2..Len(chain) :
                  \E ci_prev \in chain[k - 1].y : \E ci_cur \in chain[k].y :
                      cands[ci_prev].day < cands[ci_cur].day

\* total_t = F_t + (number of placed new meetings of t) in the solver's solution
Total_t(tid) == FCount(tid) + Cardinality(PlacedOf(tid))

\* C23: in every assignment satisfying the hard constraints, for every team t,
\* buf_ok[t] = 1 iff total_t >= base_t + 1, and buf_ok[t] = 0 iff total_t <= base_t.
C23_BufferIndicator ==
    HasSolution =>
        \A tid \in DOMAIN data.teams :
            LET base == data.teams[tid].base_required
            IN  /\ solver.buf_ok[tid] = 1 <=> Total_t(tid) >= base + 1
                /\ solver.buf_ok[tid] = 0 <=> Total_t(tid) <= base

\* a solution where one team with a placed new meeting has buf_ok = 1 and
\* total_t = base_t + 1, and another has buf_ok = 0 and total_t = base_t
C23_Witness ==
    /\ HasSolution
    /\ \E tid \in DOMAIN data.teams :
          /\ solver.buf_ok[tid] = 1
          /\ PlacedOf(tid) # {}
          /\ Total_t(tid) = data.teams[tid].base_required + 1
    /\ \E tid \in DOMAIN data.teams :
          /\ solver.buf_ok[tid] = 0
          /\ PlacedOf(tid) # {}
          /\ Total_t(tid) = data.teams[tid].base_required

\* C24: the buffer-indicator constraints never make an instance infeasible on their
\* own: for every team and every total_t in F_t..F_t+K_t that meets the required count,
\* some value of buf_ok[t] satisfies both buffer constraints; in particular, when no team
\* needs a new meeting (the all-zero assignment satisfies every other hard constraint),
\* the solve does not come back infeasible.
C24_BufferNeverInfeasible ==
    /\ Preprocessed =>
          \A tid \in DOMAIN data.teams :
              \A total \in FCount(tid)..(FCount(tid) + K_t(tid)) :
                  total >= data.teams[tid].base_required + data.teams[tid].add_required
                      => \E b \in {0, 1} : buf_ok_constraints(tid, total, b)
    /\ (Returned /\ \A tid \in DOMAIN data.teams : N_t(tid) = 0)
          => result.status # "INFEASIBLE"

\* C25: in every assignment satisfying the hard constraints, the placed sequence
\* indices of a team form a contiguous prefix 1..n: if the new meeting with index
\* k >= 2 is placed then the meeting with index k-1 is placed too.
C25_ContiguousPrefix ==
    HasSolution =>
        \A tid \in DOMAIN solver.sol :
            LET chain == solver.sol[tid]
            IN  \A k \in 2..Len(chain) : chain[k].y # {} => chain[k - 1].y # {}

\* a solution in which a team that needs one new meeting and may place two has
\* index 2 placed
C25_Witness ==
    /\ HasSolution
    /\ \E tid \in DOMAIN solver.sol :
          /\ N_t(tid) = 1
          /\ Len(solver.sol[tid]) = 2
          /\ solver.sol[tid][2].y # {}

\* the returned meeting of team tid with sequence index k, if any
ReturnedAt(tid, k) ==
    {m \in NewOf(tid) :
        \E ci \in solver.sol[tid][k].y :
            /\ m.day = pre.candidates_by_team[tid][ci].day
            /\ m.start_slot = pre.candidates_by_team[tid][ci].start_slot}

\* C26: every returned new meeting placed at sequence index k of team t carries
\* sequence number F_t + k; within a team the returned meetings have pairwise distinct
\* sequence numbers, all greater than F_t, continuing the fixed prefix as F_t+1, F_t+2,
\* ... in chronological order.
C26_SequenceNumbers ==
    FeasibleReturn =>
        \A tid \in DOMAIN data.teams :
            /\ \A k \in 1..Len(solver.sol[tid]) :
                  \A m \in ReturnedAt(tid, k) : m.meeting_no = FCount(tid) + k
            /\ \A i \in 1..Len(result.meetings) : \A j \in 1..Len(result.meetings) :
                  (i # j /\ result.meetings[i].team_tid = tid
                         /\ result.meetings[j].team_tid = tid)
                      => result.meetings[i].meeting_no # result.meetings[j].meeting_no
            /\ {m.meeting_no : m \in NewOf(tid)}
                  = (FCount(tid) + 1)..(FCount(tid) + NewCount(tid))
            /\ \A m1 \in NewOf(tid) : \A m2 \in NewOf(tid) :
                  m1.meeting_no < m2.meeting_no => Before(m1, m2)

\* a feasible return with a new meeting of a team that has a fixed meeting
C26_Witness ==
    /\ FeasibleReturn
    /\ \E tid \in DOMAIN data.teams :
          /\ FCount(tid) > 0
          /\ \E m \in NewOf(tid) : m.meeting_no = FCount(tid) + 1

\* the fixed meetings of team tid that no other fixed meeting of the team follows
LastFixed(tid) == {fm \in FixedOf(tid) : \A f2 \in FixedOf(tid) : ~Before(fm, f2)}

\* the commissioner sets of the meetings that immediately precede returned meeting m
PredecessorComms(tid, m) ==
    IF m.meeting_no = FCount(tid) + 1
    THEN {Range(fm.commissioner_pids) : fm \in LastFixed(tid)}
    ELSE {Range(m2.commissioner_pids) :
             m2 \in {m3 \in NewOf(tid) : m3.meeting_no = m.meeting_no - 1}}

\* C27: for every returned new meeting, handover_person is either absent or a
\* commissioner of both this meeting and the immediately preceding meeting of the team
\* (the last fixed meeting when k = 1 and F_t > 0, otherwise the new meeting k-1); it is
\* present for every returned meeting that has such a predecessor and absent for a
\* team's very first meeting.
C27_HandoverPerson ==
    FeasibleReturn =>
        \A tid \in DOMAIN data.teams : \A m \in NewOf(tid) :
            LET preds == PredecessorComms(tid, m)
            IN  /\ m.handover_person_pid # None =>
                      /\ m.handover_person_pid \in Range(m.commissioner_pids)
                      /\ \E pc_set \in preds : m.handover_person_pid \in pc_set
                /\ preds # {} => m.handover_person_pid # None
                /\ m.meeting_no = 1 => m.handover_person_pid = None

\* a feasible return where a team's first new meeting follows a fixed meeting and
\* shares some but not all commissioners with it
C27_Witness ==
    /\ FeasibleReturn
    /\ \E tid \in DOMAIN data.teams : \E m \in NewOf(tid) : \E fm \in LastFixed(tid) :
          /\ m.meeting_no = FCount(tid) + 1
          /\ m.handover_person_pid # None
          /\ Range(m.commissioner_pids) # Range(fm.commissioner_pids)

\* the dates on which team tid has a candidate
CandidateDates(tid) ==
    {pre.candidates_by_team[tid][i].day : i \in 1..Len(pre.candidates_by_team[tid])}

\* some team needs more new meetings than it has candidate dates (none, if its
\* candidate list is empty)
CandidateShortage ==
    \E tid \in DOMAIN data.teams :
        N_t(tid) > 0 /\ Cardinality(CandidateDates(tid)) < N_t(tid)

Core(m) ==
    [team_tid |-> m.team_tid, day |-> m.day, start_slot |-> m.start_slot,
     leader_pid |-> m.leader_pid, commissioner_pids |-> m.commissioner_pids,
     meeting_no |-> m.meeting_no]

CoreSeq(ms) == [i \in 1..Len(ms) |-> Core(ms[i])]

\* the meetings of ms other than meeting number no of team tid
RECURSIVE Without(_, _, _)
Without(ms, tid, no) ==
    IF ms = <<>> THEN <<>>
    ELSE IF Head(ms).team_tid = tid /\ Head(ms).meeting_no = no
         THEN Without(Tail(ms), tid, no)
         ELSE <<Head(ms)>> \o Without(Tail(ms), tid, no)

\* C29: when a placed meeting yields a number of extracted commissioners different
\* from 4, only that meeting is omitted: every other placed meeting is returned with the
\* team, date, start slot, commissioners and sequence number F_t + k it has without the
\* gap.
C29_SkipOnlyAffected ==
    (run.phase = "gap" /\ FeasibleReturn) =>
        CoreSeq(result.meetings) = CoreSeq(Without(run.prev, run.tid, run.prev_total))

\* a return after a gap in the first of two placed meetings of a team
C29_Witness ==
    /\ run.phase = "gap"
    /\ FeasibleReturn
    /\ Len(run.prev) >= 2
    /\ \E m \in Range(run.prev) :
          /\ m.team_tid = run.tid
          /\ m.meeting_no > run.prev_total
    /\ Len(result.meetings) = Len(run.prev) - 1

\* generation_start is earlier than the current time
GenerationStartEarlier ==
    \/ generation_start.day < now.day
    \/ /\ generation_start.day = now.day
       /\ generation_start.hour * 60 + generation_start.minute < now.hour * 60 + now.minute

\* validate_integrity raises on the input
IntegrityInvalid ==
    ~(GloballyValid /\ \A fm \in Range(data.fixed_meetings) : FixedMeetingValid(fm))

\* the positions of main() after both validations
PastValidation ==
    {"preprocess_all", "optimize", "extract", "report", "raised", "exit_0", "exit_2"}

PipelineOrder ==
    /\ pc \in PastValidation => (~GenerationStartEarlier /\ ~IntegrityInvalid)
    /\ (pre # NoPre \/ solver # NoSolver \/ result # NoResult \/ exported)
          => pc \in PastValidation
    /\ pc = "exit_1" => (GenerationStartEarlier \/ IntegrityInvalid)
    /\ pc = "exit_2" => (Returned /\ ~result.feasible /\ ~exported)
    /\ exported => (pc = "exit_0" /\ result.feasible)

\* the step main() takes after a failed validation and after an infeasible solve
PipelineStep ==
    /\ (pc = "validate_generation_start" /\ GenerationStartEarlier) => pc' = "exit_1"
    /\ (pc = "validate_integrity" /\ IntegrityInvalid) => pc' = "exit_1"
    /\ (pc = "report" /\ ~result.feasible) => (pc' = "exit_2" /\ ~exported')
    /\ pc \in {"exit_1", "exit_2"} => pc' = pc

\* C30: the solver is invoked only after validate_generation_start and
\* validate_integrity have succeeded: if generation_start is earlier than the current
\* time, or integrity validation raises, the run ends with exit code 1 and neither
\* preprocessing nor solve_milp nor the export is executed; an infeasible solve ends with
\* exit code 2 without writing an output file.
C30_Pipeline == [][PipelineStep]_vars /\ []PipelineOrder

\* a run that passed validate_generation_start and ended with exit code 1 because
\* integrity validation raised
C30_Witness ==
    /\ pc = "exit_1"
    /\ ~GenerationStartEarlier
    /\ IntegrityInvalid
    /\ pre = NoPre
    /\ solver = NoSolver
    /\ ~exported

====
